---- MODULE Spec2Model ----
(***************************************************************************)
(* Accessibility scan engine of accessibility-pro.                         *)
(*                                                                         *)
(*   server/scanner.ts  (lines 92-577)  browser-backed scanner:            *)
(*        evaluateAccessibility, scanSinglePageWithPuppeteer,              *)
(*        scanWebsiteWithPuppeteer, scanWebsite (fallback controller)      *)
(*   unnamed/part_003                   simulated multi-page scanner, the  *)
(*        three-argument scanWebsite the fallback calls as simulatedScan   *)
(*   server/scanner.ts  (lines 1-91)    first, single-argument simulated   *)
(*        scanner (fixed violation list)                                   *)
(*                                                                         *)
(* Numbers: JavaScript doubles are modelled by exact rationals n/d.  With  *)
(* totalChecks = 7 the per-violation deduction 100/70 is inexact, but the  *)
(* exact score 100 - 10W/7 is never within 1/14 of a rounding tie, so the  *)
(* accumulated error (about 1e-13) cannot change Math.round; with          *)
(* totalChecks = 8 the factor 1.25 and all partial sums are exact.         *)
(***************************************************************************)
EXTENDS Integers, Sequences, FiniteSets, TLC

VARIABLES
    req,          \* arguments of the running scanWebsite call
    pc,           \* position of the call
    browser,      \* "none" | "open" | "closed": the launched browser
    closeCalls,   \* number of browser.close() calls made
    openPages,    \* pages (tabs) opened and not closed
    pagesToScan,  \* scanWebsiteWithPuppeteer: pagesToScan
    pageResults,  \* scanWebsiteWithPuppeteer: pageResults
    pending,      \* completion of the try/catch of scanWebsiteWithPuppeteer
    result,       \* value the scanWebsite promise resolved with
    thrown,       \* TRUE when the scanWebsite promise rejected
    mode,         \* "primary" | "degraded": which scanner made the result
    rendered,     \* TRUE once some page.evaluate(evaluateAccessibility) returned
    anchors,      \* link extraction: the a[href] elements of the base page
    links,        \* scanWebsiteWithPuppeteer: links
    attempted,    \* the scanSinglePageWithPuppeteer calls made so far: url, failed
    failures,     \* what rejected during the call: "launch", "discovery", "close"
    subject,      \* page-level runs: the input handed to a page scanner
    page,         \* page-level runs: the PageResult / ScanResult it returned
    rateLimits,   \* routes: the Map of the rate limiter, ip -> count, resetTime
    now,          \* routes: Date.now(), in clock ticks
    passTimes,    \* per ip, the times at which rateLimit called next()
    scans,        \* storage: the stored scans, scan id = position
    response,     \* the last response sent, with the request it answers
    invoked       \* arguments of the scanWebsite call of the last request

scanVars == <<req, pc, browser, closeCalls, openPages, pagesToScan, pageResults,
              pending, result, thrown, mode, rendered, anchors, links, attempted,
              failures, subject, page>>

apiVars == <<rateLimits, now, passTimes, scans, response, invoked>>

vars == <<scanVars, apiVars>>

--------------------------------------------------------------------------
(* Bounds                                                                  *)

MaxDepth == 3
MaxCount == 9
MaxHeadings == 3

--------------------------------------------------------------------------
(* Small helpers                                                           *)

Min(a, b) == IF a < b THEN a ELSE b
Max(a, b) == IF a > b THEN a ELSE b

RECURSIVE Sum(_)
\* numbers.reduce((sum, x) => sum + x, 0)
Sum(numbers) == IF numbers = <<>> THEN 0 ELSE Head(numbers) + Sum(Tail(numbers))

\* items.reduce((sum, item) => sum + item[field], 0)
SumField(items, field) == Sum([i \in 1..Len(items) |-> items[i][field]])

RECURSIVE AllViolations(_)
\* pageResults.flatMap(page => page.violations)
AllViolations(results) ==
    IF results = <<>> THEN <<>>
    ELSE Head(results).violations \o AllViolations(Tail(results))

\* Math.round of the rational n/d (d > 0): floor(n/d + 1/2), ties go up
MathRound(n, d) == (2 * n + d) \div (2 * d)

NoValue == [none |-> TRUE]

--------------------------------------------------------------------------
(* Violation model                                                         *)

\* description texts of the browser-backed scanner, by check id ("landmark"
\* is used by the simulated scanner only); the text of the scan-error
\* violation is followed by the message of the caught error
Description(id) ==
    CASE id = "image-alt"         -> "Images Without Alt Text"
      [] id = "heading-order"     -> "Improper Heading Structure"
      [] id = "color-contrast"    -> "Potential Insufficient Color Contrast"
      [] id = "label"             -> "Form Elements Do Not Have Labels"
      [] id = "html-lang"         -> "Missing Document Language"
      [] id = "keyboard"          -> "Elements Not Keyboard Accessible"
      [] id = "aria-hidden-focus" -> "ARIA Hidden Element Contains Focusable Element"
      [] id = "landmark"          -> "Missing Landmark Regions"
      [] id = "scan-error"        -> "Error scanning page"

Violation(id, impact, count) ==
    [id |-> id, description |-> Description(id), impact |-> impact, count |-> count]

\* the same violation under another description text
Described(v, description) == [v EXCEPT !.description = description]

SeverityFactor_Flat(impact) ==
    IF impact = "critical" THEN 3
    ELSE IF impact = "serious" THEN 3
    ELSE IF impact = "moderate" THEN 2 ELSE 1

SeverityFactor(impact) ==
    IF impact = "critical" THEN 4
    ELSE IF impact = "serious" THEN 3
    ELSE IF impact = "moderate" THEN 2 ELSE 1

Deduction(v) == v.count * SeverityFactor(v.impact)

\* what the forEach subtracts in all, in units of 100 / (totalChecks * 10)
TotalDeduction(violations) ==
    Sum([i \in 1..Len(violations) |-> Deduction(violations[i])])

PageScore_NoClamp(violations, totalChecks) ==
    MathRound(100 * totalChecks - 10 * TotalDeduction(violations), totalChecks)

\* let score = 100; violations.forEach(score -= count * factor * (100 / (totalChecks * 10)));
\* score = Math.max(0, Math.min(100, Math.round(score)))
PageScore(violations, totalChecks) ==
    Max(0, Min(100, MathRound(100 * totalChecks - 10 * TotalDeduction(violations),
                              totalChecks)))

IssueCount_Length(violations) == Len(violations)

\* violations.reduce((sum, violation) => sum + violation.count, 0)
IssueCount(violations) == SumField(violations, "count")

PassedChecks_Zero(violations, totalChecks) == 0

\* totalChecks - (violations.length > 0 ? violations.length : 0)
PassedChecks(violations, totalChecks) ==
    totalChecks - (IF Len(violations) > 0 THEN Len(violations) ELSE 0)

--------------------------------------------------------------------------
(* URLs.  A URL string scheme://host/seg/.../seg[/] is the record of its   *)
(* parts, so that prefix stripping, suffix stripping, concatenation and    *)
(* String.includes are computed, not assumed.                              *)

Url(scheme, host, segs, slash) ==
    [scheme |-> scheme, host |-> host, segs |-> segs, slash |-> slash]

\* words of interest occurring inside a host name or a path segment
WordsIn(s) ==
    CASE s = "blog" -> {"blog"}
      [] s = "blog.site.test" -> {"blog"}
      [] s = "contact" -> {"contact"}
      [] OTHER -> {}

\* pageUrl.includes(word)
UrlIncludes(url, word) ==
    \/ word \in WordsIn(url.host)
    \/ \E i \in 1..Len(url.segs) : word \in WordsIn(url.segs[i])

\* the URLs a caller asks to scan
RequestUrls ==
    { Url("https", "site.test", <<>>, FALSE),
      Url("http", "blog.site.test", <<>>, TRUE) }

--------------------------------------------------------------------------
(* Page snapshot seen by evaluateAccessibility: what each DOM query of the *)
(* battery returns.  Collections whose check is a plain filter are given   *)
(* by the number of elements the filter keeps; headings and text styles    *)
(* are given element by element.                                           *)

HeadingLevels == 1..6

RECURSIVE SeqsUpTo(_, _)
SeqsUpTo(S, n) ==
    IF n = 0 THEN { <<>> }
    ELSE LET shorter == SeqsUpTo(S, n - 1)
         IN  shorter \cup { Append(q, x) : q \in { r \in shorter : Len(r) = n - 1 }, x \in S }

CountValues == {0, 1, MaxCount}

Style(color, backgroundColor) == [color |-> color, backgroundColor |-> backgroundColor]

TextElementLists ==
    { <<>>,
      << Style("rgb(169, 169, 169)", "rgb(255, 255, 255)"),
         Style("rgb(255, 255, 255)", "rgba(0, 0, 0, 0)"),
         Style("rgb(89, 89, 89)", "rgb(255, 255, 255)") >> }

\* one-element text lists: mid grey, dark grey, light grey and white text on
\* a white background
ContrastSamples ==
    { << Style(c, "rgb(255, 255, 255)") >> :
        c \in { "rgb(153, 153, 153)", "rgb(89, 89, 89)", "rgb(211, 211, 211)",
                "rgb(255, 255, 255)" } }

\* a document on which no check finds anything
CleanDom ==
    [ imagesWithoutAlt    |-> 0,
      headings            |-> <<>>,
      textElements        |-> <<>>,
      inputsWithoutLabels |-> 0,
      hasLang             |-> TRUE,
      clickableElements   |-> 0,
      divButtons          |-> 0,
      ariaQueryThrows     |-> FALSE,
      invalidAriaUsage    |-> 0 ]

\* documents that differ in every query result, with at most one heading;
\* otherwise clean documents with up to MaxHeadings headings; otherwise clean
\* documents with one text element
Doms ==
         { d \in [ imagesWithoutAlt    : CountValues,
                   headings            : SeqsUpTo(HeadingLevels, 1),
                   textElements        : TextElementLists,
                   inputsWithoutLabels : {0, MaxCount},
                   hasLang             : BOOLEAN,
                   clickableElements   : 0..1,
                   divButtons          : 0..1,
                   ariaQueryThrows     : BOOLEAN,
                   invalidAriaUsage    : 0..1 ] :
             d.ariaQueryThrows => d.invalidAriaUsage = 0 }
    \cup { [CleanDom EXCEPT !.headings = h] : h \in SeqsUpTo(HeadingLevels, MaxHeadings) }
    \cup { [CleanDom EXCEPT !.textElements = t] : t \in ContrastSamples }

\* snapshots served during a crawl: a sample of Doms
CrawlDoms ==
    { d \in Doms :
        /\ d.imagesWithoutAlt \in CountValues
        /\ d.headings \in { <<>>, <<2>> }
        /\ d.headings = <<2>> => (d.imagesWithoutAlt = 0 /\ d.hasLang)
        /\ d.ariaQueryThrows => (d.imagesWithoutAlt = 0 /\ d.hasLang /\ d.headings = <<>>)
        /\ d.textElements = <<>>
        /\ d.inputsWithoutLabels = 0
        /\ d.clickableElements = 0
        /\ d.divButtons = 0
        /\ d.invalidAriaUsage = 0 }

--------------------------------------------------------------------------
(* evaluateAccessibility: the seven checks and the page metrics            *)

CheckRegistry ==
    << "image-alt", "heading-order", "color-contrast", "label",
       "html-lang", "keyboard", "aria-hidden-focus" >>

TotalChecks == 7

\* a check pushes its violation only when its filter kept something
Emit(id, impact, n) == IF n > 0 THEN << Violation(id, impact, n) >> ELSE <<>>

RECURSIVE HeadingFilter(_, _, _)
\* headings.filter((heading, index) => ...) with the captured prevLevel:
\* prevLevel is assigned only when the heading is not flagged
HeadingFilter(headings, index, prevLevel) ==
    IF headings = <<>> THEN 0
    ELSE LET level == Head(headings)
             flagged == \/ (index = 0 /\ level # 1)
                        \/ (index > 0 /\ level > prevLevel + 1)
         IN  IF flagged
             THEN 1 + HeadingFilter(Tail(headings), index + 1, prevLevel)
             ELSE HeadingFilter(Tail(headings), index + 1, level)

HeadingStructureViolations(headings) == HeadingFilter(headings, 0, 0)

PotentialContrastIssue_Grey(style) ==
    \/ (style.color = "rgb(255, 255, 255)" /\ style.backgroundColor = "rgba(0, 0, 0, 0)")
    \/ style.color = "rgb(211, 211, 211)"
    \/ style.color = "rgb(169, 169, 169)"
    \/ style.color = "rgb(153, 153, 153)"

\* the colour proxy of check 3
PotentialContrastIssue(style) ==
    \/ (style.color = "rgb(255, 255, 255)" /\ style.backgroundColor = "rgba(0, 0, 0, 0)")
    \/ style.color = "rgb(211, 211, 211)"
    \/ style.color = "rgb(169, 169, 169)"

PotentialContrastIssues(textElements) ==
    Cardinality({ i \in 1..Len(textElements) : PotentialContrastIssue(textElements[i]) })

Checks_KeepZero(dom) ==
       << Violation("image-alt", "critical", dom.imagesWithoutAlt) >>
    \o Emit("heading-order", "moderate", HeadingStructureViolations(dom.headings))
    \o Emit("color-contrast", "serious", PotentialContrastIssues(dom.textElements))
    \o Emit("label", "critical", dom.inputsWithoutLabels)
    \o Emit("html-lang", "serious", IF dom.hasLang THEN 0 ELSE 1)
    \o Emit("keyboard", "serious", dom.clickableElements + dom.divButtons)
    \o Emit("aria-hidden-focus", "serious", dom.invalidAriaUsage)

\* checks 1..7 in source order, each appending at most one violation
Checks(dom) ==
       Emit("image-alt", "critical", dom.imagesWithoutAlt)
    \o Emit("heading-order", "moderate", HeadingStructureViolations(dom.headings))
    \o Emit("color-contrast", "serious", PotentialContrastIssues(dom.textElements))
    \o Emit("label", "critical", dom.inputsWithoutLabels)
    \o Emit("html-lang", "serious", IF dom.hasLang THEN 0 ELSE 1)
    \o Emit("keyboard", "serious", dom.clickableElements + dom.divButtons)
    \o Emit("aria-hidden-focus", "serious", dom.invalidAriaUsage)

\* document.querySelectorAll('[aria-*]') raises SyntaxError when the DOM
\* implementation rejects the selector; nothing in the function catches it
EvaluateThrows(dom) == dom.ariaQueryThrows

\* the object evaluateAccessibility returns (when it returns)
evaluateAccessibility(dom) ==
    LET violations == Checks(dom)
    IN  [ violations   |-> violations,
          passedChecks |-> PassedChecks(violations, TotalChecks),
          issueCount   |-> IssueCount(violations),
          score        |-> PageScore(violations, TotalChecks) ]

ErrorPage_Empty(url) ==
    [ url |-> url, score |-> 0, passedChecks |-> 0, issueCount |-> 0,
      violations |-> <<>> ]

\* the catch block of scanSinglePageWithPuppeteer
ErrorPage(url) ==
    [ url |-> url, score |-> 0, passedChecks |-> 0, issueCount |-> 1,
      violations |-> << Violation("scan-error", "critical", 1) >> ]

\* the success return of scanSinglePageWithPuppeteer
PageResultOf(url, r) ==
    [ url |-> url, score |-> r.score, passedChecks |-> r.passedChecks,
      issueCount |-> r.issueCount, violations |-> r.violations ]

--------------------------------------------------------------------------
(* Simulated scanner (unnamed/part_003)                                    *)

commonPaths ==
    << "about", "contact", "services", "products", "blog", "faq",
       "privacy-policy", "terms-of-service", "careers", "team", "portfolio",
       "features", "pricing", "support", "testimonials", "news", "events",
       "gallery" >>

SimTotalChecks == 8

\* ids of the entries of possibleViolations, in source order
SimulatedRegistry ==
    << "image-alt", "color-contrast", "keyboard", "html-lang",
       "heading-order", "landmark", "aria-hidden-focus", "label" >>

\* Math.random() results, in hundredths: a sample of [0, 1)
RandomValues == {0, 50, 99}

\* Math.floor(Math.random() * n) for a draw r in hundredths
RandomBelow(r, n) == (r * n) \div 100

\* the successive Math.random() results of one generateViolations call
RandomDraws == [1..7 -> RandomValues]

\* draws used while a whole site is simulated: a sample of RandomDraws
CoarseDraws ==
    { [i \in 1..7 |-> 0], [i \in 1..7 |-> 99],
      [i \in 1..7 |-> IF i % 2 = 0 THEN 50 ELSE 0] }

Rotate(s, k) == [i \in 1..Len(s) |-> s[((i - 1 + k) % Len(s)) + 1]]

\* commonPaths.sort(() => 0.5 - Math.random()) returns some permutation of
\* the list; the model samples the permutations
ShuffleOutcomes == { Rotate(commonPaths, k) : k \in {0, 1, 4} }

\* baseUrl.replace(/^https?:\/\//, '').replace(/\/+$/, '') put behind https://
CleanBase(baseUrl) == Url("https", baseUrl.host, baseUrl.segs, FALSE)

getSimulatedSubpages(baseUrl, limit, shuffledPaths) ==
    LET clean == CleanBase(baseUrl)
        n == Max(0, Min(limit - 1, Len(shuffledPaths)))
    IN  << clean >> \o
        [i \in 1..n |-> Url("https", clean.host, Append(clean.segs, shuffledPaths[i]), FALSE)]

possibleViolations_PrimaryText(pageUrl, draws) ==
    << Violation("image-alt", "critical", RandomBelow(draws[1], 5) + 1),
       Violation("color-contrast", "serious", RandomBelow(draws[2], 7) + 1),
       Violation("keyboard", "serious", RandomBelow(draws[3], 3) + 1),
       Violation("html-lang", "serious", IF UrlIncludes(pageUrl, "blog") THEN 1 ELSE 0),
       Violation("heading-order", "moderate", RandomBelow(draws[4], 3)),
       Violation("landmark", "moderate", RandomBelow(draws[5], 2)),
       Violation("aria-hidden-focus", "serious", RandomBelow(draws[6], 2)),
       Violation("label", "critical",
                 IF UrlIncludes(pageUrl, "contact") THEN RandomBelow(draws[7], 4) + 1 ELSE 0) >>

\* the simulated scanner words its colour-contrast finding without
\* "Potential"; its other texts are those of the browser-backed scanner
possibleViolations(pageUrl, draws) ==
    << Violation("image-alt", "critical", RandomBelow(draws[1], 5) + 1),
       Described(Violation("color-contrast", "serious", RandomBelow(draws[2], 7) + 1),
                 "Insufficient Color Contrast"),
       Violation("keyboard", "serious", RandomBelow(draws[3], 3) + 1),
       Violation("html-lang", "serious", IF UrlIncludes(pageUrl, "blog") THEN 1 ELSE 0),
       Violation("heading-order", "moderate", RandomBelow(draws[4], 3)),
       Violation("landmark", "moderate", RandomBelow(draws[5], 2)),
       Violation("aria-hidden-focus", "serious", RandomBelow(draws[6], 2)),
       Violation("label", "critical",
                 IF UrlIncludes(pageUrl, "contact") THEN RandomBelow(draws[7], 4) + 1 ELSE 0) >>

\* possibleViolations.filter(v => v.count > 0)
generateViolations(pageUrl, draws) ==
    SelectSeq(possibleViolations(pageUrl, draws), LAMBDA v : v.count > 0)

\* scanSinglePage of the simulated scanner
scanSinglePage(url, draws) ==
    LET violations == generateViolations(url, draws)
    IN  [ url          |-> url,
          score        |-> PageScore(violations, SimTotalChecks),
          passedChecks |-> PassedChecks(violations, SimTotalChecks),
          issueCount   |-> IssueCount(violations),
          violations   |-> violations ]

--------------------------------------------------------------------------
(* First simulated scanner (server/scanner.ts lines 1-91)                  *)

LegacyTotalChecks == 7
LegacyPassedChecks == 2

LegacyViolations ==
    << Violation("image-alt", "critical", 3),
       Described(Violation("color-contrast", "serious", 5), "Insufficient Color Contrast"),
       Violation("keyboard", "serious", 2),
       Violation("html-lang", "serious", 1),
       Violation("heading-order", "moderate", 2) >>

\* scanWebsite(url) of the first scanner: no isMultiPage, no pagesScanned
LegacyScan(url) ==
    [ score        |-> PageScore(LegacyViolations, LegacyTotalChecks),
      passedChecks |-> LegacyPassedChecks,
      issueCount   |-> IssueCount(LegacyViolations),
      violations   |-> LegacyViolations ]

--------------------------------------------------------------------------
(* Aggregation                                                             *)

IndexOfId(acc, id) ==
    IF \E i \in 1..Len(acc) : acc[i].id = id
    THEN CHOOSE i \in 1..Len(acc) : acc[i].id = id
    ELSE 0

RECURSIVE MergeInto_KeepFirst(_, _)
MergeInto_KeepFirst(acc, rest) ==
    IF rest = <<>> THEN acc
    ELSE LET v == Head(rest)
         IN  IF IndexOfId(acc, v.id) = 0
             THEN MergeInto_KeepFirst(Append(acc, v), Tail(rest))
             ELSE MergeInto_KeepFirst(acc, Tail(rest))

RECURSIVE MergeInto(_, _)
\* the forEach over allViolations with a Map keyed by id: the first violation
\* of an id is cloned and inserted, a later one adds its count to the clone
MergeInto(acc, rest) ==
    IF rest = <<>> THEN acc
    ELSE LET v == Head(rest)
             i == IndexOfId(acc, v.id)
         IN  IF i = 0
             THEN MergeInto(Append(acc, v), Tail(rest))
             ELSE MergeInto([acc EXCEPT ![i].count = @ + v.count], Tail(rest))

MergeById_KeepFirst(allViolations) == MergeInto_KeepFirst(<<>>, allViolations)

\* scanWebsiteWithPuppeteer: violationMap, Array.from(violationMap.values())
MergeById(allViolations) == MergeInto(<<>>, allViolations)

\* combineViolations of the simulated scanner: the same algorithm
combineViolations(allViolations) == MergeInto(<<>>, allViolations)

OverallScore_Floor(results) == SumField(results, "score") \div Len(results)

\* Math.round(pageResults.reduce((sum, page) => sum + page.score, 0) / pageResults.length)
OverallScore(results) == MathRound(SumField(results, "score"), Len(results))

MapEntry_Shared(ref, id) == ref

\* the object the Map holds for the first violation of an id.  A violation
\* object of the page results is named by its place <<page, index>>;
\* { ...violation } is a new object, named <<0, id>>
MapEntry(ref, id) == << 0, id >>

\* the violation at place <<i, k>> is the first of its id in allViolations
FirstOfId(results, i, k) ==
    LET id == results[i].violations[k].id
    IN  /\ \A m \in 1..(k - 1) : results[i].violations[m].id # id
        /\ \A j \in 1..(i - 1) :
             \A m \in 1..Len(results[j].violations) : results[j].violations[m].id # id

\* the places of the page violations whose object the Map holds
SharedPlaces(results) ==
    { place \in UNION { { << i, k >> : k \in 1..Len(results[i].violations) } :
                          i \in 1..Len(results) } :
        /\ MapEntry(place, results[place[1]].violations[place[2]].id) = place
        /\ FirstOfId(results, place[1], place[2]) }

\* the page results as the merging forEach leaves them: existing.count +=
\* violation.count writes to the object the Map holds, which changes a
\* violation of a page only if that very object is in the Map
PagesAfterMerge(results) ==
    LET written == SharedPlaces(results)
    IN  IF written = {} THEN results
        ELSE [ i \in 1..Len(results) |->
                 [ results[i] EXCEPT !.violations =
                     [ k \in 1..Len(results[i].violations) |->
                         LET v == results[i].violations[k]
                         IN  IF << i, k >> \in written
                             THEN [ v EXCEPT !.count =
                                      SumField(SelectSeq(AllViolations(results),
                                                         LAMBDA w : w.id = v.id), "count") ]
                             ELSE v ] ] ]

\* the multi-page return value of scanWebsiteWithPuppeteer
AggregatePrimary(pages, results) ==
    [ score        |-> OverallScore(results),
      passedChecks |-> SumField(results, "passedChecks"),
      issueCount   |-> SumField(results, "issueCount"),
      violations   |-> MergeById(AllViolations(results)),
      isMultiPage  |-> TRUE,
      pagesScanned |-> pages,
      pageResults  |-> PagesAfterMerge(results) ]

\* the multi-page return value of the simulated scanWebsite
AggregateSimulated(pages, results) ==
    [ score        |-> OverallScore(results),
      passedChecks |-> SumField(results, "passedChecks"),
      issueCount   |-> SumField(results, "issueCount"),
      violations   |-> combineViolations(AllViolations(results)),
      isMultiPage  |-> TRUE,
      pagesScanned |-> pages,
      pageResults  |-> PagesAfterMerge(results) ]

SinglePageResult_NoPages(pageResult, url) ==
    [ score |-> pageResult.score, passedChecks |-> pageResult.passedChecks,
      issueCount |-> pageResult.issueCount, violations |-> pageResult.violations,
      url |-> pageResult.url, isMultiPage |-> FALSE, pagesScanned |-> <<>> ]

\* { ...singlePageResult, isMultiPage: false, pagesScanned: [url] }
SinglePageResult(pageResult, url) ==
    [ score |-> pageResult.score, passedChecks |-> pageResult.passedChecks,
      issueCount |-> pageResult.issueCount, violations |-> pageResult.violations,
      url |-> pageResult.url, isMultiPage |-> FALSE, pagesScanned |-> << url >> ]

\* the request takes the single-page branch: !isMultiPage || scanDepth <= 1
SinglePageBranch(isMultiPage, scanDepth) == ~isMultiPage \/ scanDepth <= 1

\* simulated scanWebsite(url, isMultiPage, scanDepth); shuffledPaths and
\* draws (one RandomDraws element per page) are its random inputs
simulatedScan(url, isMultiPage, scanDepth, shuffledPaths, draws) ==
    IF SinglePageBranch(isMultiPage, scanDepth)
    THEN SinglePageResult(scanSinglePage(url, draws[1]), url)
    ELSE LET pages == getSimulatedSubpages(url, scanDepth, shuffledPaths)
             results == [i \in 1..Len(pages) |-> scanSinglePage(pages[i], draws[i])]
         IN  AggregateSimulated(pages, results)

--------------------------------------------------------------------------
(* Link extraction of scanWebsiteWithPuppeteer                             *)

Href(kind, url) == [kind |-> kind, url |-> url]

\* href attribute values by shape, with their text held as URL parts:
\*   "absolute"        starts with http and is a valid URL
\*   "invalid"         starts with http and new URL() rejects it
\*   "rootRelative"    /seg...           "schemeRelative"  //host/seg...
\*   "relative"        seg...            "empty"           the empty string
\*   "fragment" #...   "mailto" mailto:...   "tel" tel:...   "javascript" javascript:...
\* (for the last four the whole text is the one path segment)
AnchorLists ==
    { <<>>,
      << Href("rootRelative", Url("", "", <<"about">>, FALSE)),
         Href("absolute", Url("https", "other.test", <<>>, FALSE)),
         Href("fragment", Url("", "", <<"#top">>, FALSE)),
         Href("absolute", Url("https", "site.test", <<"about">>, FALSE)),
         Href("relative", Url("", "", <<"contact">>, FALSE)),
         Href("rootRelative", Url("", "", <<"blog">>, FALSE)) >>,
      << Href("mailto", Url("", "", <<"mailto:team@site.test">>, FALSE)),
         Href("absolute", Url("https", "site.test", <<>>, FALSE)),
         Href("javascript", Url("", "", <<"javascript:void(0)">>, FALSE)),
         Href("absolute", Url("http", "blog.site.test", <<>>, TRUE)),
         Href("tel", Url("", "", <<"tel:+100">>, FALSE)),
         Href("rootRelative", Url("", "", <<"faq">>, FALSE)),
         Href("empty", Url("", "", <<>>, FALSE)),
         Href("schemeRelative", Url("", "cdn.other.test", <<"lib">>, FALSE)) >>,
      << Href("rootRelative", Url("", "", <<"about">>, FALSE)),
         Href("invalid", Url("", "", <<>>, FALSE)) >> }

\* the href after "Convert relative URLs to absolute": baseUrl + href when it
\* starts with '/', baseUrl + '/' + href when it does not start with http
Resolve(base, href) ==
    CASE href.kind \in {"absolute", "invalid"} -> href.url
      [] href.kind = "schemeRelative" ->
           Url(base.scheme, base.host, <<"", href.url.host>> \o href.url.segs, href.url.slash)
      [] OTHER -> Url(base.scheme, base.host, href.url.segs, href.url.slash)

Skipped_None(href) == FALSE

\* !href || javascript: || mailto: || tel: || #
Skipped(href) == href.kind \in {"empty", "javascript", "mailto", "tel", "fragment"}

\* new URL(href) throws for some anchor that is not skipped
LinksThrow(elements) ==
    \E i \in 1..Len(elements) : elements[i].kind = "invalid"

RECURSIVE CollectLinks(_, _, _)
\* anchors.forEach(...) filling the Set uniqueUrls, then Array.from(uniqueUrls)
CollectLinks(base, elements, uniqueUrls) ==
    IF elements = <<>> THEN uniqueUrls
    ELSE LET href == Head(elements)
             abs == Resolve(base, href)
             keep == /\ ~Skipped(href)
                     /\ abs.host = base.host
                     /\ \A i \in 1..Len(uniqueUrls) : uniqueUrls[i] # abs
         IN  CollectLinks(base, Tail(elements),
                          IF keep THEN Append(uniqueUrls, abs) ELSE uniqueUrls)

ExtractLinks(base, elements) == CollectLinks(base, elements, <<>>)

Slice_All(list, n) == list

\* links.slice(0, scanDepth - 1)
Slice(list, n) == SubSeq(list, 1, Max(0, Min(n, Len(list))))

\* [url, ...links.slice(0, scanDepth - 1)]
PagesToScan(url, list, scanDepth) == << url >> \o Slice(list, scanDepth - 1)

--------------------------------------------------------------------------
(* scanSinglePageWithPuppeteer(url, browser)                               *)

\* what the browser does with the page: browser.newPage() rejects, page.goto
\* (or the waits before evaluate) rejects, or evaluateAccessibility runs
PageOutcomes == {"newPageFails", "navigationFails", "evaluated"}

PageFails(outcome, dom) ==
    outcome # "evaluated" \/ EvaluateThrows(dom)

scanSinglePageWithPuppeteer(url, outcome, dom) ==
    IF PageFails(outcome, dom)
    THEN ErrorPage(url)
    ELSE PageResultOf(url, evaluateAccessibility(dom))

\* pages left open by the call: page.close() is reached only on success
PagesLeftOpen(outcome, dom) ==
    IF outcome # "newPageFails" /\ PageFails(outcome, dom) THEN 1 ELSE 0

--------------------------------------------------------------------------
(* HTTP routes (unnamed/part_001): the rate limiter, POST /api/scan and    *)
(* GET /api/scans/:id, with the validators they call (unnamed/part_011,    *)
(* shared/schema.ts) and the storage they use (server/storage.ts).         *)
(*                                                                         *)
(* The clock counts ticks, TicksPerDay of them to DAY_IN_MS.               *)

MaxTime == 3
TicksPerDay == 2
MaxScans == 1

FREE_SCANS_PER_DAY == 3
DAY_IN_MS == TicksPerDay

\* req.isAuthenticated() is false: no user id
Anonymous == 0

\* the users table: user 1 has an active subscription, user 2 the status
\* every account is created with
Users ==
    { [id |-> 1, subscriptionStatus |-> "active"],
      [id |-> 2, subscriptionStatus |-> "free"] }

\* who sends a request: nobody logged in, or the id of the session's user
Requesters == {Anonymous} \cup { u.id : u \in Users }

isAuthenticated(user) == user # Anonymous

\* the subscriptionStatus column of the user's row
subscriptionStatus(user) == (CHOOSE u \in Users : u.id = user).subscriptionStatus

ClientIps == {"203.0.113.1", "203.0.113.2"}

\* a url string by its parts: scheme ("" when the string has none) and the
\* host as typed, a sequence of dot-separated labels
InputUrl(scheme, host) == [scheme |-> scheme, host |-> host]

PublicHosts ==
    { << "site", "test" >>, << "172", "32", "0", "1" >>, << "10", "example", "com" >> }

LoopbackHosts ==
    { << "localhost" >>, << "LOCALHOST" >>, << "127", "0", "0", "1" >>,
      << "2130706433" >>, << "127", "0", "0", "2" >>, << "[::1]" >> }

PrivateHosts ==
    { << "10", "0", "0", "5" >>, << "172", "16", "0", "1" >>,
      << "172", "31", "255", "1" >>, << "192", "168", "1", "1" >> }

InputUrls ==
         { InputUrl("https", h) : h \in PublicHosts \cup LoopbackHosts \cup PrivateHosts }
    \cup { InputUrl("http", << "site", "test" >>), InputUrl("http", << "127", "0", "0", "2" >>),
           InputUrl("ftp", << "site", "test" >>), InputUrl("", << "site", "test" >>) }

\* new URL(url) throws on a string without a scheme
UrlParses(url) == url.scheme # ""

\* new URL(url).hostname: the host parser lower-cases names and writes an
\* IPv4 address given as one number in dotted form
Hostname(url) ==
    CASE url.host = << "LOCALHOST" >>  -> << "localhost" >>
      [] url.host = << "2130706433" >> -> << "127", "0", "0", "1" >>
      [] OTHER                         -> url.host

\* request bodies: every url with the defaults, and one public url with
\* every combination of isMultiPage and scanDepth
ScanDepths == {0, 1, 3, 4, 10, 11}

Bodies ==
         { [url |-> u, isMultiPage |-> FALSE, scanDepth |-> 1] : u \in InputUrls }
    \cup { [url |-> InputUrl("https", << "site", "test" >>), isMultiPage |-> m, scanDepth |-> d] :
             m \in BOOLEAN, d \in ScanDepths }

\* urlInputSchema.safeParse(body).success
urlInputSchema(body) ==
    /\ UrlParses(body.url)
    /\ body.url.scheme \in {"http", "https"}
    /\ body.isMultiPage \in BOOLEAN
    /\ body.scanDepth >= 1
    /\ body.scanDepth <= 10

TwoDigits16To31 ==
    { "16", "17", "18", "19", "20", "21", "22", "23", "24", "25", "26", "27",
      "28", "29", "30", "31" }

\* /^(10\.|172\.(1[6-9]|2[0-9]|3[0-1])\.|192\.168\.)/.test(hostname)
InternalRange(hostname) ==
    \/ Len(hostname) >= 2 /\ hostname[1] = "10"
    \/ Len(hostname) >= 3 /\ hostname[1] = "172" /\ hostname[2] \in TwoDigits16To31
    \/ Len(hostname) >= 3 /\ hostname[1] = "192" /\ hostname[2] = "168"

isSafeUrl(url) ==
    IF ~UrlParses(url) THEN FALSE
    ELSE LET hostname == Hostname(url)
         IN  IF hostname = << "localhost" >> \/ hostname = << "127", "0", "0", "1" >>
             THEN FALSE
             ELSE ~InternalRange(hostname)

\* const isPaid = req.isAuthenticated() && userId !== null
isPaid(user) == isAuthenticated(user) /\ user # Anonymous

\* the plan checks of POST /api/scan: the status they answer with, or "pass"
PlanGate(user, body) ==
    IF body.isMultiPage /\ ~isPaid(user) THEN "403"
    ELSE IF body.isMultiPage /\ isPaid(user) /\ body.scanDepth > 3
         THEN (IF ~isAuthenticated(user) THEN "401" ELSE "pass")
         ELSE IF body.isMultiPage /\ ~isPaid(user) /\ body.scanDepth > 1
              THEN "403"
              ELSE "pass"

\* the arguments of scanWebsite(url, finalIsMultiPage, finalScanDepth)
ScanArguments(user, body) ==
    [ url         |-> body.url,
      isMultiPage |-> IF isPaid(user) THEN body.isMultiPage ELSE FALSE,
      scanDepth   |-> IF isPaid(user) THEN body.scanDepth ELSE 1 ]

\* storage.createScan(scanData): the stored row (the result fields score,
\* passedChecks, issueCount, violations and pagesScanned are copied from the
\* value scanWebsite returned)
createScan(id, user, body) ==
    [ id          |-> id,
      userId      |-> user,
      url         |-> body.url,
      isPaid      |-> isPaid(user),
      isMultiPage |-> ScanArguments(user, body).isMultiPage,
      scanDepth   |-> ScanArguments(user, body).scanDepth ]

EmptyMap == [k \in {} |-> NoValue]

MapSet(map, key, value) ==
    [k \in DOMAIN map \cup {key} |-> IF k = key THEN value ELSE map[k]]

rateLimitNext_OffByOne(limits, ip, t) ==
    IF ip \notin DOMAIN limits THEN TRUE
    ELSE IF t > limits[ip].resetTime THEN TRUE
         ELSE limits[ip].count <= FREE_SCANS_PER_DAY

\* rateLimit: TRUE when the middleware calls next(), FALSE when it answers 429
rateLimitNext(limits, ip, t) ==
    IF ip \notin DOMAIN limits THEN TRUE
    ELSE IF t > limits[ip].resetTime THEN TRUE
         ELSE limits[ip].count < FREE_SCANS_PER_DAY

\* rateLimit: the Map after the call
rateLimit(limits, ip, t) ==
    IF ip \notin DOMAIN limits
    THEN MapSet(limits, ip, [count |-> 1, resetTime |-> t + DAY_IN_MS])
    ELSE IF t > limits[ip].resetTime
         THEN MapSet(limits, ip, [count |-> 1, resetTime |-> t + DAY_IN_MS])
         ELSE IF limits[ip].count >= FREE_SCANS_PER_DAY
              THEN limits
              ELSE MapSet(limits, ip, [limits[ip] EXCEPT !.count = @ + 1])

\* parseInt(req.params.id): NaN is no value
ScanIdParams == {"abc", "1", "2"}

parseInt(param) ==
    CASE param = "1" -> 1
      [] param = "2" -> 2
      [] OTHER       -> 0

\* isNaN(scanId); scan ids start at 1, and no parameter used here parses to 0
isNaN(scanId) == scanId = 0

\* storage.getScan(id)
getScan(id) == IF id \in 1..Len(scans) THEN scans[id] ELSE NoValue

\* POST requests, all from one address: anybody with any body, the users
\* with the bodies for the public url
PostRequests ==
         { [ip |-> "203.0.113.1", user |-> Anonymous, body |-> b] : b \in Bodies }
    \cup { [ip |-> "203.0.113.1", user |-> u.id, body |-> b] :
             u \in Users,
             b \in { c \in Bodies : c.url = InputUrl("https", << "site", "test" >>) } }

\* the server has just started
ApiStart ==
    /\ rateLimits = EmptyMap
    /\ now = 0
    /\ passTimes = [ip \in ClientIps |-> <<>>]
    /\ scans = <<>>
    /\ response = NoValue
    /\ invoked = NoValue

\* no scanWebsite call is modelled step by step
ScanIdle ==
    /\ req = NoValue
    /\ pc = "idle"
    /\ browser = "none"
    /\ closeCalls = 0
    /\ openPages = 0
    /\ pagesToScan = <<>>
    /\ pageResults = <<>>
    /\ pending = NoValue
    /\ result = NoValue
    /\ thrown = FALSE
    /\ mode = "primary"
    /\ rendered = FALSE
    /\ anchors = <<>>
    /\ links = <<>>
    /\ attempted = <<>>
    /\ failures = {}
    /\ subject = NoValue
    /\ page = NoValue

\* the rate limiter let the request through: its effect on the Map
Limited(r) ==
    /\ rateLimitNext(rateLimits, r.ip, now)
    /\ rateLimits' = rateLimit(rateLimits, r.ip, now)
    /\ passTimes' = [passTimes EXCEPT ![r.ip] = Append(@, now)]

Answer(route, r, status) == [route |-> route, request |-> r, status |-> status]

\* POST /api/scan: the rate limiter answers 429 and does not call next()
PostRateLimited ==
    \E r \in PostRequests :
        /\ ~rateLimitNext(rateLimits, r.ip, now)
        /\ rateLimits' = rateLimit(rateLimits, r.ip, now)
        /\ response' = Answer("scan", r, "429")
        /\ invoked' = NoValue
        /\ UNCHANGED <<now, passTimes, scans, scanVars>>

\* POST /api/scan: the body fails urlInputSchema
PostInvalid ==
    \E r \in PostRequests :
        /\ Limited(r)
        /\ ~urlInputSchema(r.body)
        /\ response' = Answer("scan", r, "400")
        /\ invoked' = NoValue
        /\ UNCHANGED <<now, scans, scanVars>>

\* POST /api/scan: isSafeUrl refuses the url
PostUnsafe ==
    \E r \in PostRequests :
        /\ Limited(r)
        /\ urlInputSchema(r.body)
        /\ ~isSafeUrl(r.body.url)
        /\ response' = Answer("scan", r, "400")
        /\ invoked' = NoValue
        /\ UNCHANGED <<now, scans, scanVars>>

\* POST /api/scan: the plan checks refuse the request
PostForbidden ==
    \E r \in PostRequests :
        /\ Limited(r)
        /\ urlInputSchema(r.body)
        /\ isSafeUrl(r.body.url)
        /\ PlanGate(r.user, r.body) # "pass"
        /\ response' = Answer("scan", r, PlanGate(r.user, r.body))
        /\ invoked' = NoValue
        /\ UNCHANGED <<now, scans, scanVars>>

\* POST /api/scan: scanWebsite is called, its result stored and returned
PostScan ==
    \E r \in PostRequests :
        /\ Limited(r)
        /\ urlInputSchema(r.body)
        /\ isSafeUrl(r.body.url)
        /\ PlanGate(r.user, r.body) = "pass"
        /\ Len(scans) < MaxScans
        /\ invoked' = ScanArguments(r.user, r.body)
        /\ scans' = Append(scans, createScan(Len(scans) + 1, r.user, r.body))
        /\ response' = Answer("scan", r, "200")
        /\ UNCHANGED <<now, scanVars>>

\* POST /api/scan: scanWebsite is called and storage.createScan rejects
PostStoreFails ==
    \E r \in PostRequests :
        /\ Limited(r)
        /\ urlInputSchema(r.body)
        /\ isSafeUrl(r.body.url)
        /\ PlanGate(r.user, r.body) = "pass"
        /\ invoked' = ScanArguments(r.user, r.body)
        /\ response' = Answer("scan", r, "500")
        /\ UNCHANGED <<now, scans, scanVars>>

GetRequests == [user : Requesters, id : ScanIdParams]

GetFrame == UNCHANGED <<rateLimits, now, passTimes, scans, scanVars>>

\* GET /api/scans/:id: the id is not a number
GetScanInvalid ==
    \E r \in GetRequests :
        /\ isNaN(parseInt(r.id))
        /\ response' = Answer("scans/:id", r, "400")
        /\ invoked' = NoValue
        /\ GetFrame

\* GET /api/scans/:id: no scan has the id
GetScanNotFound ==
    \E r \in GetRequests :
        /\ ~isNaN(parseInt(r.id))
        /\ getScan(parseInt(r.id)) = NoValue
        /\ response' = Answer("scans/:id", r, "404")
        /\ invoked' = NoValue
        /\ GetFrame

GetScanRefused(user, scan) ==
    scan.userId # Anonymous /\ isAuthenticated(user) /\ scan.userId # user

\* GET /api/scans/:id: the scan belongs to another user than the requester
GetScanForbidden ==
    \E r \in GetRequests :
        /\ ~isNaN(parseInt(r.id))
        /\ getScan(parseInt(r.id)) # NoValue
        /\ GetScanRefused(r.user, getScan(parseInt(r.id)))
        /\ response' = Answer("scans/:id", r, "403")
        /\ invoked' = NoValue
        /\ GetFrame

\* GET /api/scans/:id: the scan is sent
GetScanOk ==
    \E r \in GetRequests :
        /\ ~isNaN(parseInt(r.id))
        /\ getScan(parseInt(r.id)) # NoValue
        /\ ~GetScanRefused(r.user, getScan(parseInt(r.id)))
        /\ response' = [ route |-> "scans/:id", request |-> r, status |-> "200",
                          scan |-> getScan(parseInt(r.id)) ]
        /\ invoked' = NoValue
        /\ GetFrame

ApiInit == ApiStart /\ ScanIdle

ApiNext ==
    \/ PostRateLimited
    \/ PostInvalid
    \/ PostUnsafe
    \/ PostForbidden
    \/ PostScan
    \/ PostStoreFails
    \/ GetScanInvalid
    \/ GetScanNotFound
    \/ GetScanForbidden
    \/ GetScanOk

\* the routes serving requests that arrive at one time
ApiSpec == ApiInit /\ [][ApiNext]_vars

--------------------------------------------------------------------------
(* The rate limiter alone, over several days and two client addresses      *)

\* rateLimit calls next(): the request goes on to the route handler
RateLimitNext ==
    \E ip \in ClientIps :
        /\ Limited([ip |-> ip])
        /\ response' = Answer("rateLimit", [ip |-> ip], "next")
        /\ UNCHANGED <<now, scans, invoked, scanVars>>

\* rateLimit answers 429 and returns without calling next()
RateLimitRefuse ==
    \E ip \in ClientIps :
        /\ ~rateLimitNext(rateLimits, ip, now)
        /\ rateLimits' = rateLimit(rateLimits, ip, now)
        /\ response' = Answer("rateLimit", [ip |-> ip], "429")
        /\ UNCHANGED <<now, passTimes, scans, invoked, scanVars>>

\* time passes
Tick ==
    /\ now < MaxTime
    /\ now' = now + 1
    /\ UNCHANGED <<rateLimits, passTimes, scans, response, invoked, scanVars>>

LimiterNext == RateLimitNext \/ RateLimitRefuse \/ Tick

LimiterSpec == ApiInit /\ [][LimiterNext]_vars

--------------------------------------------------------------------------
(* The scanWebsite call                                                    *)

Requests == [url : RequestUrls, isMultiPage : BOOLEAN, scanDepth : 0..MaxDepth]

\* number of pages the simulated scanner scans for a request
SimulatedPageCount(r) ==
    IF SinglePageBranch(r.isMultiPage, r.scanDepth)
    THEN 1
    ELSE 1 + Max(0, Min(r.scanDepth - 1, Len(commonPaths)))

\* one scanSinglePageWithPuppeteer call as the crawl saw it
Attempt(url, outcome, dom) ==
    [ url      |-> url,
      failed   |-> PageFails(outcome, dom),
      returned |-> scanSinglePageWithPuppeteer(url, outcome, dom) ]

ScanInit ==
    /\ req \in Requests
    /\ pc = "start"
    /\ browser = "none"
    /\ closeCalls = 0
    /\ openPages = 0
    /\ pagesToScan = <<>>
    /\ pageResults = <<>>
    /\ pending = NoValue
    /\ result = NoValue
    /\ thrown = FALSE
    /\ mode = "primary"
    /\ rendered = FALSE
    /\ anchors = <<>>
    /\ links = <<>>
    /\ attempted = <<>>
    /\ failures = {}
    /\ subject = NoValue
    /\ page = NoValue
    /\ ApiStart

\* puppeteer.launch(...) resolves
LaunchOk ==
    /\ pc = "start"
    /\ browser' = "open"
    /\ pc' = "launched"
    /\ UNCHANGED <<req, closeCalls, openPages, pagesToScan, pageResults, pending,
                   result, thrown, mode, rendered, anchors, links, attempted,
                   failures, subject, page, apiVars>>

\* puppeteer.launch(...) rejects: control enters the catch block
LaunchFails ==
    /\ pc = "start"
    /\ failures' = failures \cup {"launch"}
    /\ pc' = "catch"
    /\ UNCHANGED <<req, browser, closeCalls, openPages, pagesToScan, pageResults,
                   pending, result, thrown, mode, rendered, anchors, links,
                   attempted, subject, page, apiVars>>

ScanSingle_Abort ==
    /\ pc = "launched"
    /\ SinglePageBranch(req.isMultiPage, req.scanDepth)
    /\ \E outcome \in PageOutcomes, dom \in CrawlDoms :
         /\ IF PageFails(outcome, dom)
            THEN pc' = "catch" /\ UNCHANGED pending
            ELSE /\ pc' = "finally"
                 /\ pending' = SinglePageResult(
                                   scanSinglePageWithPuppeteer(req.url, outcome, dom), req.url)
         /\ openPages' = openPages + PagesLeftOpen(outcome, dom)
         /\ rendered' = (rendered \/ ~PageFails(outcome, dom))
         /\ attempted' = Append(attempted, Attempt(req.url, outcome, dom))
    /\ UNCHANGED <<req, browser, closeCalls, pagesToScan, pageResults, result,
                   thrown, mode, anchors, links, failures, subject, page, apiVars>>

\* the single-page branch: scan the url, return the spread result
ScanSingle ==
    /\ pc = "launched"
    /\ SinglePageBranch(req.isMultiPage, req.scanDepth)
    /\ \E outcome \in PageOutcomes, dom \in CrawlDoms :
         /\ pending' = SinglePageResult(scanSinglePageWithPuppeteer(req.url, outcome, dom),
                                        req.url)
         /\ openPages' = openPages + PagesLeftOpen(outcome, dom)
         /\ rendered' = (rendered \/ ~PageFails(outcome, dom))
         /\ attempted' = Append(attempted, Attempt(req.url, outcome, dom))
    /\ pc' = "finally"
    /\ UNCHANGED <<req, browser, closeCalls, pagesToScan, pageResults, result,
                   thrown, mode, anchors, links, failures, subject, page, apiVars>>

\* link discovery succeeds: newPage, goto, evaluate, page.close, pagesToScan
DiscoverOk ==
    /\ pc = "launched"
    /\ ~SinglePageBranch(req.isMultiPage, req.scanDepth)
    /\ \E found \in AnchorLists :
         /\ ~LinksThrow(found)
         /\ anchors' = found
         /\ links' = ExtractLinks(req.url, found)
         /\ pagesToScan' = PagesToScan(req.url, ExtractLinks(req.url, found), req.scanDepth)
    /\ pageResults' = <<>>
    /\ pc' = "scanning"
    /\ UNCHANGED <<req, browser, closeCalls, openPages, pending, result, thrown,
                   mode, rendered, attempted, failures, subject, page, apiVars>>

\* link discovery rejects (newPage, goto or the in-page evaluation): catch
DiscoverFails ==
    /\ pc = "launched"
    /\ ~SinglePageBranch(req.isMultiPage, req.scanDepth)
    /\ \E step \in {"newPage", "goto", "evaluate"} :
         /\ IF step = "evaluate"
            THEN \E found \in AnchorLists : LinksThrow(found) /\ anchors' = found
            ELSE UNCHANGED anchors
         /\ openPages' = openPages + (IF step = "newPage" THEN 0 ELSE 1)
    /\ failures' = failures \cup {"discovery"}
    /\ pc' = "catch"
    /\ UNCHANGED <<req, browser, closeCalls, pagesToScan, pageResults, pending,
                   result, thrown, mode, rendered, links, attempted, subject, page, apiVars>>

ScanNextPage_Abort ==
    /\ pc = "scanning"
    /\ Len(pageResults) < Len(pagesToScan)
    /\ LET pageUrl == pagesToScan[Len(pageResults) + 1]
       IN  \E outcome \in PageOutcomes, dom \in CrawlDoms :
             /\ IF PageFails(outcome, dom)
                THEN pc' = "catch" /\ UNCHANGED pageResults
                ELSE /\ pc' = pc
                     /\ pageResults' = Append(pageResults,
                            scanSinglePageWithPuppeteer(pageUrl, outcome, dom))
             /\ openPages' = openPages + PagesLeftOpen(outcome, dom)
             /\ rendered' = (rendered \/ ~PageFails(outcome, dom))
             /\ attempted' = Append(attempted, Attempt(pageUrl, outcome, dom))
    /\ UNCHANGED <<req, browser, closeCalls, pagesToScan, pending, result,
                   thrown, mode, anchors, links, failures, subject, page, apiVars>>

\* one iteration of for (const pageUrl of pagesToScan)
ScanNextPage ==
    /\ pc = "scanning"
    /\ Len(pageResults) < Len(pagesToScan)
    /\ LET pageUrl == pagesToScan[Len(pageResults) + 1]
       IN  \E outcome \in PageOutcomes, dom \in CrawlDoms :
             /\ pageResults' =
                  Append(pageResults, scanSinglePageWithPuppeteer(pageUrl, outcome, dom))
             /\ openPages' = openPages + PagesLeftOpen(outcome, dom)
             /\ rendered' = (rendered \/ ~PageFails(outcome, dom))
             /\ attempted' = Append(attempted, Attempt(pageUrl, outcome, dom))
    /\ UNCHANGED <<req, pc, browser, closeCalls, pagesToScan, pending, result,
                   thrown, mode, anchors, links, failures, subject, page, apiVars>>

\* after the loop: aggregate and return
Aggregate ==
    /\ pc = "scanning"
    /\ Len(pageResults) = Len(pagesToScan)
    /\ pending' = AggregatePrimary(pagesToScan, pageResults)
    /\ pageResults' = PagesAfterMerge(pageResults)
    /\ pc' = "finally"
    /\ UNCHANGED <<req, browser, closeCalls, openPages, pagesToScan, result,
                   thrown, mode, rendered, anchors, links, attempted, failures,
                   subject, page, apiVars>>

\* a run of the simulated scanner for the current request
SimulatedResults ==
    { simulatedScan(req.url, req.isMultiPage, req.scanDepth, shuffled, draws) :
        shuffled \in ShuffleOutcomes,
        draws \in [1..SimulatedPageCount(req) -> CoarseDraws] }

\* catch block of scanWebsiteWithPuppeteer: return simulatedScan(...)
Fallback ==
    /\ pc = "catch"
    /\ pending' \in SimulatedResults
    /\ mode' = "degraded"
    /\ pc' = "finally"
    /\ UNCHANGED <<req, browser, closeCalls, openPages, pagesToScan, pageResults,
                   result, thrown, rendered, anchors, links, attempted, failures,
                   subject, page, apiVars>>

FinallyDeliver_NoClose ==
    /\ pc = "finally"
    /\ result' = pending
    /\ pending' = NoValue
    /\ pagesToScan' = <<>>
    /\ pageResults' = <<>>
    /\ anchors' = <<>>
    /\ links' = <<>>
    /\ attempted' = <<>>
    /\ pc' = "done"
    /\ UNCHANGED <<req, browser, closeCalls, openPages, thrown, mode, rendered,
                   failures, subject, page, apiVars>>

\* finally block, then the pending return value reaches scanWebsite's caller
\* (the locals of scanWebsiteWithPuppeteer go out of scope)
FinallyDeliver ==
    /\ pc = "finally"
    /\ IF browser = "open"
       THEN browser' = "closed" /\ closeCalls' = closeCalls + 1
       ELSE UNCHANGED <<browser, closeCalls>>
    /\ result' = pending
    /\ pending' = NoValue
    /\ pagesToScan' = <<>>
    /\ pageResults' = <<>>
    /\ anchors' = <<>>
    /\ links' = <<>>
    /\ attempted' = <<>>
    /\ pc' = "done"
    /\ UNCHANGED <<req, openPages, thrown, mode, rendered, failures, subject, page, apiVars>>

\* finally block: browser.close() rejects, so scanWebsiteWithPuppeteer rejects
\* and the pending return value is lost (its locals go out of scope); the
\* rejection does not tell whether the browser process is gone
FinallyCloseFails ==
    /\ pc = "finally"
    /\ browser = "open"
    /\ browser' \in {"open", "closed"}
    /\ closeCalls' = closeCalls + 1
    /\ failures' = failures \cup {"close"}
    /\ pending' = NoValue
    /\ pagesToScan' = <<>>
    /\ pageResults' = <<>>
    /\ anchors' = <<>>
    /\ links' = <<>>
    /\ attempted' = <<>>
    /\ pc' = "outerCatch"
    /\ UNCHANGED <<req, openPages, result, thrown, mode, rendered, subject, page, apiVars>>

ScanWebsiteCatch_Rethrow ==
    /\ pc = "outerCatch"
    /\ thrown' = TRUE
    /\ pc' = "done"
    /\ UNCHANGED <<req, browser, closeCalls, openPages, pagesToScan, pageResults,
                   pending, result, mode, rendered, anchors, links, attempted,
                   failures, subject, page, apiVars>>

\* catch block of scanWebsite: return simulatedScan(url, isMultiPage, scanDepth)
ScanWebsiteCatch ==
    /\ pc = "outerCatch"
    /\ result' \in SimulatedResults
    /\ mode' = "degraded"
    /\ pc' = "done"
    /\ UNCHANGED <<req, browser, closeCalls, openPages, pagesToScan, pageResults,
                   pending, thrown, rendered, anchors, links, attempted, failures,
                   subject, page, apiVars>>

ScanNext ==
    \/ LaunchOk
    \/ LaunchFails
    \/ ScanSingle
    \/ DiscoverOk
    \/ DiscoverFails
    \/ ScanNextPage
    \/ Aggregate
    \/ Fallback
    \/ FinallyDeliver
    \/ FinallyCloseFails
    \/ ScanWebsiteCatch

--------------------------------------------------------------------------
(* Page-level runs: one page scanner applied to one input                  *)

PageUrls ==
    { Url("https", "site.test", <<>>, FALSE),
      Url("https", "site.test", <<"blog">>, FALSE),
      Url("https", "site.test", <<"contact">>, FALSE) }

Subjects ==
         { [kind |-> "dom", url |-> Url("https", "site.test", <<>>, FALSE), dom |-> d] :
             d \in Doms }
    \cup { [kind |-> "simulated", url |-> u, draws |-> w] : u \in PageUrls, w \in RandomDraws }
    \cup { [kind |-> "legacy", url |-> u] : u \in PageUrls }

PageInit ==
    /\ subject \in Subjects
    /\ pc = "page"
    /\ req = NoValue
    /\ browser = "none"
    /\ closeCalls = 0
    /\ openPages = 0
    /\ pagesToScan = <<>>
    /\ pageResults = <<>>
    /\ pending = NoValue
    /\ result = NoValue
    /\ thrown = FALSE
    /\ mode = "primary"
    /\ rendered = FALSE
    /\ anchors = <<>>
    /\ links = <<>>
    /\ attempted = <<>>
    /\ failures = {}
    /\ page = NoValue
    /\ ApiStart

PageFrame ==
    UNCHANGED <<req, browser, closeCalls, openPages, pagesToScan, pageResults,
                pending, result, thrown, mode, rendered, anchors, links,
                attempted, failures, subject, apiVars>>

\* scanSinglePageWithPuppeteer on a page that loads
EvaluatePage ==
    /\ pc = "page"
    /\ subject.kind = "dom"
    /\ page' = scanSinglePageWithPuppeteer(subject.url, "evaluated", subject.dom)
    /\ pc' = "pageDone"
    /\ PageFrame

\* scanSinglePage of the simulated scanner
SimulatePage ==
    /\ pc = "page"
    /\ subject.kind = "simulated"
    /\ page' = scanSinglePage(subject.url, subject.draws)
    /\ pc' = "pageDone"
    /\ PageFrame

\* scanWebsite(url) of the first simulated scanner
LegacyPage ==
    /\ pc = "page"
    /\ subject.kind = "legacy"
    /\ page' = LegacyScan(subject.url)
    /\ pc' = "pageDone"
    /\ PageFrame

PageNext == EvaluatePage \/ SimulatePage \/ LegacyPage

--------------------------------------------------------------------------

Init == ScanInit \/ PageInit

Next == ScanNext \/ PageNext

Spec == Init /\ [][Next]_vars

--------------------------------------------------------------------------
(* What a state shows of the results                                       *)

Range(s) == { s[i] : i \in 1..Len(s) }

Has(r, field) == field \in DOMAIN r

\* ScanResults returned or about to be returned by the scanWebsite call
EmittedScanResults == { r \in {result, pending} : r # NoValue }

\* the pages behind a ScanResult: its pageResults, or itself when single-page
PagesOf(r) == IF Has(r, "pageResults") THEN Range(r.pageResults) ELSE { r }

IsErrorPage(p) == p.violations = << Violation("scan-error", "critical", 1) >>

\* pages made by the browser-backed scanner, error pages included
PrimaryPages ==
         Range(pageResults)
    \cup (IF mode = "primary" THEN UNION { PagesOf(r) : r \in EmittedScanResults } ELSE {})
    \cup (IF pc = "pageDone" /\ subject.kind = "dom" THEN { page } ELSE {})

\* pages made by the simulated scanner
SimulatedPages ==
         (IF mode = "degraded" THEN UNION { PagesOf(r) : r \in EmittedScanResults } ELSE {})
    \cup (IF pc = "pageDone" /\ subject.kind = "simulated" THEN { page } ELSE {})

\* results of the first simulated scanner
LegacyResults == IF pc = "pageDone" /\ subject.kind = "legacy" THEN { page } ELSE {}

\* everything that carries a violation list
AllEmitted == EmittedScanResults \cup PrimaryPages \cup SimulatedPages \cup LegacyResults

MultiPageResults == { r \in EmittedScanResults : r.isMultiPage }

\* k is n/d (d > 0) rounded to the nearest integer, halves upwards
NearestInteger(k, n, d) == 2 * d * k - d <= 2 * n /\ 2 * n < 2 * d * k + d

\* the consistent-with-the-request value of isMultiPage
RequestedMultiPage == req.isMultiPage /\ req.scanDepth > 1

--------------------------------------------------------------------------
(* C1: scanWebsite never rejects; once it has returned, the value is a     *)
(* ScanResult whose isMultiPage agrees with the request and, when no page  *)
(* evaluation ever succeeded, whose violation list is not empty.           *)
C1_NeverThrows ==
    /\ ~thrown
    /\ pc = "done" =>
         /\ result # NoValue
         /\ \A f \in {"score", "passedChecks", "issueCount", "violations",
                      "isMultiPage", "pagesScanned"} : Has(result, f)
         /\ result.isMultiPage = RequestedMultiPage
         /\ ~rendered => result.violations # <<>>

\* browser launched, every page failed, browser.close() rejected, result returned
C1_Witness ==
    /\ pc = "done"
    /\ closeCalls = 1
    /\ browser = "open"
    /\ openPages > 0
    /\ ~rendered
    /\ mode = "degraded"
    /\ RequestedMultiPage

--------------------------------------------------------------------------
(* C2: every violation of every emitted result (page results, aggregated   *)
(* result, error page, simulated results) has count > 0.                   *)
C2_PositiveCounts ==
    \A r \in AllEmitted : \A i \in 1..Len(r.violations) : r.violations[i].count > 0

\* a page whose image check found nothing while another check found something
C2_Witness ==
    /\ pc = "pageDone"
    /\ subject.kind = "dom"
    /\ subject.dom.imagesWithoutAlt = 0
    /\ ~EvaluateThrows(subject.dom)
    /\ page.violations # <<>>
    /\ \A i \in 1..Len(page.violations) : page.violations[i].id # "image-alt"

--------------------------------------------------------------------------
(* C3: the score of every page result and of every ScanResult, single- or  *)
(* multi-page, is an integer between 0 and 100.                            *)
C3_ScoreRange ==
    \A r \in AllEmitted : r.score \in 0..100

\* a page whose unclamped score is negative
C3_Witness ==
    /\ pc = "pageDone"
    /\ subject.kind = "dom"
    /\ ~EvaluateThrows(subject.dom)
    /\ 10 * TotalDeduction(page.violations) > 100 * TotalChecks + TotalChecks
    /\ page.score = 0

--------------------------------------------------------------------------
(* C4: the score of a page produced by a check registry (browser-backed or *)
(* simulated) is 100 - sum(count * weight) * 100 / (10 * registry size),   *)
(* rounded to the nearest integer and clamped to [0, 100], with weights    *)
(* critical 4, serious 3, moderate 2, other 1.                             *)
C4_Weight(impact) ==
    CASE impact = "critical" -> 4
      [] impact = "serious" -> 3
      [] impact = "moderate" -> 2
      [] OTHER -> 1

C4_Weighted(violations) ==
    LET w[i \in 0..Len(violations)] ==
          IF i = 0 THEN 0
          ELSE w[i - 1] + violations[i].count * C4_Weight(violations[i].impact)
    IN  w[Len(violations)]

\* s is raw / size rounded to the nearest integer (halves upwards) and then
\* clamped: below 100 it is not under the rounded value, above 0 not over it
C4_Expected(p, registry, s) ==
    LET size == Len(registry)
        raw == 100 * size - 10 * C4_Weighted(p.violations)   \* score * size, unrounded
    IN  /\ s \in 0..100
        /\ s < 100 => 2 * raw < (2 * s + 1) * size
        /\ s > 0 => 2 * raw >= (2 * s - 1) * size

C4_ScoreFormula ==
    /\ \A p \in PrimaryPages : ~IsErrorPage(p) => C4_Expected(p, CheckRegistry, p.score)
    /\ \A p \in SimulatedPages : C4_Expected(p, SimulatedRegistry, p.score)

\* a browser-backed page with a critical and a moderate violation, not clamped
C4_Witness ==
    /\ pc = "pageDone"
    /\ subject.kind = "dom"
    /\ ~EvaluateThrows(subject.dom)
    /\ \E i, j \in 1..Len(page.violations) :
         page.violations[i].impact = "critical" /\ page.violations[j].impact = "moderate"
    /\ page.score \in 1..99

--------------------------------------------------------------------------
(* C5 as claimed: in every PageResult, the synthetic error page included,  *)
(* passedChecks = registry size - number of checks that reported a         *)
(* violation on the page.                                                  *)
C5_Reported(p, registry) ==
    Cardinality({ i \in 1..Len(p.violations) : p.violations[i].id \in Range(registry) })

C5_Original ==
    /\ \A p \in PrimaryPages :
         p.passedChecks = Len(CheckRegistry) - C5_Reported(p, CheckRegistry)
    /\ \A p \in SimulatedPages :
         p.passedChecks = Len(SimulatedRegistry) - C5_Reported(p, SimulatedRegistry)

(* C5 as amended: the equation holds for every page produced by running a  *)
(* check battery (browser-backed evaluation, simulated scanner, first      *)
(* simulated scanner); the synthetic error page has passedChecks = 0; and  *)
(* 0 <= passedChecks <= totalChecks holds for every page.                  *)
C5_PassedChecks ==
    /\ \A p \in PrimaryPages :
         /\ ~IsErrorPage(p) =>
              p.passedChecks = Len(CheckRegistry) - C5_Reported(p, CheckRegistry)
         /\ IsErrorPage(p) => p.passedChecks = 0
         /\ p.passedChecks \in 0..Len(CheckRegistry)
    /\ \A p \in SimulatedPages :
         /\ p.passedChecks = Len(SimulatedRegistry) - C5_Reported(p, SimulatedRegistry)
         /\ p.passedChecks \in 0..Len(SimulatedRegistry)
    /\ \A p \in LegacyResults :
         /\ p.passedChecks = LegacyTotalChecks - Len(p.violations)
         /\ p.passedChecks \in 0..LegacyTotalChecks

\* a crawl holding an evaluated page with violations next to an error page
C5_Witness ==
    /\ pc = "scanning"
    /\ \E p, q \in Range(pageResults) :
         /\ IsErrorPage(p)
         /\ ~IsErrorPage(q) /\ q.violations # <<>> /\ q.passedChecks < TotalChecks

--------------------------------------------------------------------------
(* C6: at every level issueCount is the sum of the counts of the           *)
(* violations listed at that level: each page result, the error page, and  *)
(* the aggregated result (whose issueCount is the sum of the pages' ones). *)
C6_Sum(violations) ==
    LET t[i \in 0..Len(violations)] ==
          IF i = 0 THEN 0 ELSE t[i - 1] + violations[i].count
    IN  t[Len(violations)]

C6_IssueCount ==
    \A r \in AllEmitted : r.issueCount = C6_Sum(r.violations)

\* an aggregated result in which some id was merged from two pages and some
\* violation has more than one instance
C6_Witness ==
    /\ pc = "done"
    /\ result.isMultiPage
    /\ Len(AllViolations(result.pageResults)) > Len(result.violations)
    /\ \E i \in 1..Len(result.violations) : result.violations[i].count > 1

--------------------------------------------------------------------------
(* C7: in an aggregated result every id occurs once, with the sum of the   *)
(* counts of that id over all pages, in order of first appearance.         *)
C7_FirstIndex(all, id) == CHOOSE i \in 1..Len(all) :
    all[i].id = id /\ \A j \in 1..(i - 1) : all[j].id # id

C7_TotalOf(all, id) ==
    LET t[i \in 0..Len(all)] ==
          IF i = 0 THEN 0
          ELSE t[i - 1] + (IF all[i].id = id THEN all[i].count ELSE 0)
    IN  t[Len(all)]

C7_MergedFrom(merged, all) ==
    /\ \A i, j \in 1..Len(merged) : i # j => merged[i].id # merged[j].id
    /\ { merged[i].id : i \in 1..Len(merged) } = { all[i].id : i \in 1..Len(all) }
    /\ \A i \in 1..Len(merged) : merged[i].count = C7_TotalOf(all, merged[i].id)
    /\ \A i, j \in 1..Len(merged) :
         i < j => C7_FirstIndex(all, merged[i].id) < C7_FirstIndex(all, merged[j].id)

C7_MergeById ==
    \A r \in MultiPageResults :
        C7_MergedFrom(r.violations, AllViolations(r.pageResults))

\* a browser-backed crawl whose later page brings an id first and repeats one
C7_Witness ==
    /\ pc = "done"
    /\ mode = "primary"
    /\ result.isMultiPage
    /\ Len(result.pageResults) >= 2
    /\ Len(result.violations) >= 2
    /\ Len(AllViolations(result.pageResults)) > Len(result.violations)
    /\ result.violations[1].id # CheckRegistry[1]

--------------------------------------------------------------------------
(* C8: aggregation of the same page results in another order.              *)
PermutationTable ==
    [ n \in 0..MaxDepth |->
        { f \in [1..n -> 1..n] : \A i, j \in 1..n : i # j => f[i] # f[j] } ]

PagePermutations(n) == PermutationTable[n]

Permuted(s, f) == [i \in 1..Len(s) |-> s[f[i]]]

C8_Reaggregated(r, f) ==
    IF mode = "degraded"
    THEN AggregateSimulated(Permuted(r.pagesScanned, f), Permuted(r.pageResults, f))
    ELSE AggregatePrimary(Permuted(r.pagesScanned, f), Permuted(r.pageResults, f))

C8_IdCounts(violations) ==
    { <<violations[i].id, violations[i].count>> : i \in 1..Len(violations) }

(* C8 as claimed: every permutation of the page results aggregates to the  *)
(* same merged violation list and the same score.                          *)
C8_Original ==
    \A r \in MultiPageResults : \A f \in PagePermutations(Len(r.pageResults)) :
        LET again == C8_Reaggregated(r, f)
        IN  /\ again.violations = r.violations
            /\ again.score = r.score

(* C8 as amended: every permutation aggregates to the same ids with the    *)
(* same summed counts and to the same score, issueCount and passedChecks;  *)
(* the order of the merged list follows the order of the pages.            *)
C8_OrderIndependent ==
    \A r \in MultiPageResults : \A f \in PagePermutations(Len(r.pageResults)) :
        LET again == C8_Reaggregated(r, f)
        IN  /\ C8_IdCounts(again.violations) = C8_IdCounts(r.violations)
            /\ Len(again.violations) = Len(r.violations)
            /\ again.score = r.score
            /\ again.issueCount = r.issueCount
            /\ again.passedChecks = r.passedChecks

\* a crawl whose pages, taken in reverse, merge to another list order
C8_Witness ==
    /\ pc = "done"
    /\ mode = "primary"
    /\ result.isMultiPage
    /\ Len(result.pageResults) >= 2
    /\ \E f \in PagePermutations(Len(result.pageResults)) :
         /\ C8_Reaggregated(result, f).violations # result.violations
         /\ \E i \in 1..Len(result.violations) :
              /\ result.violations[i].count > 1
              /\ C7_FirstIndex(AllViolations(result.pageResults),
                               result.violations[i].id) # 
                 C7_FirstIndex(AllViolations(Permuted(result.pageResults, f)),
                               result.violations[i].id)

--------------------------------------------------------------------------
(* C9: a multi-page result has passedChecks and issueCount equal to the    *)
(* sums over its pages and score equal to the mean of the page scores      *)
(* rounded to the nearest integer, every attempted page counted once.      *)
C9_Total(results, field) ==
    LET t[i \in 0..Len(results)] ==
          IF i = 0 THEN 0 ELSE t[i - 1] + results[i][field]
    IN  t[Len(results)]

C9_Totals ==
    \A r \in MultiPageResults :
        /\ Len(r.pageResults) = Len(r.pagesScanned)
        /\ r.passedChecks = C9_Total(r.pageResults, "passedChecks")
        /\ r.issueCount = C9_Total(r.pageResults, "issueCount")
        /\ NearestInteger(r.score, C9_Total(r.pageResults, "score"), Len(r.pageResults))

\* a crawl with a failed page whose mean score is not an integer and rounds up
C9_Witness ==
    /\ pc = "done"
    /\ result.isMultiPage
    /\ \E p \in Range(result.pageResults) : IsErrorPage(p)
    /\ result.score * Len(result.pageResults) > C9_Total(result.pageResults, "score")

--------------------------------------------------------------------------
(* C10: a returned ScanResult with isMultiPage = false comes from a        *)
(* request with isMultiPage = false or depth <= 1, lists exactly the       *)
(* requested url in pagesScanned and has no pageResults (or a one-element  *)
(* mirror of its top-level fields).                                        *)
C10_Mirror(r) ==
    /\ Len(r.pageResults) = 1
    /\ \A f \in {"score", "passedChecks", "issueCount", "violations"} :
         r.pageResults[1][f] = r[f]

C10_SinglePage ==
    pc = "done" /\ ~thrown =>
        /\ result.isMultiPage = FALSE <=> (~req.isMultiPage \/ req.scanDepth <= 1)
        /\ result.isMultiPage = FALSE =>
             /\ result.pagesScanned = << req.url >>
             /\ Has(result, "pageResults") => C10_Mirror(result)

\* multi-page asked with depth <= 1, answered by the simulated scanner
C10_Witness ==
    /\ pc = "done"
    /\ req.isMultiPage
    /\ req.scanDepth <= 1
    /\ mode = "degraded"
    /\ result.isMultiPage = FALSE

--------------------------------------------------------------------------
(* C11: a multi-page crawl attempts exactly min(scanDepth, 1 + number of   *)
(* discovered links) pages, the base page included, and pagesScanned never *)
(* has more than scanDepth entries.  The discovered links are links for    *)
(* the browser-backed crawl and commonPaths for the simulated one.         *)
C11_IsMin(k, a, b) == k <= a /\ k <= b /\ (k = a \/ k = b)

C11_PageBudget ==
    /\ pc = "scanning" =>
         /\ C11_IsMin(Len(pagesToScan), req.scanDepth, 1 + Len(links))
         /\ Len(attempted) <= Len(pagesToScan)
    /\ (pc = "finally" /\ mode = "primary" /\ pending.isMultiPage) =>
         /\ C11_IsMin(Len(pending.pagesScanned), req.scanDepth, 1 + Len(links))
         /\ Len(attempted) = Len(pending.pagesScanned)
    /\ \A r \in MultiPageResults :
         /\ mode = "degraded" =>
              C11_IsMin(Len(r.pagesScanned), req.scanDepth, 1 + Len(commonPaths))
         /\ Len(r.pageResults) = Len(r.pagesScanned)
         /\ Len(r.pagesScanned) <= req.scanDepth

\* a finished crawl that found more links than the budget allows
C11_Witness ==
    /\ pc = "finally"
    /\ mode = "primary"
    /\ pending.isMultiPage
    /\ 1 + Len(links) > req.scanDepth
    /\ Len(pending.pagesScanned) = req.scanDepth
    /\ Len(attempted) = req.scanDepth

--------------------------------------------------------------------------
(* C12: in every multi-page result pagesScanned[0] is the URL the caller   *)
(* passed and pageResults[0] is the result for that URL; in a browser-     *)
(* backed crawl the remaining pages are the first discovered links, in     *)
(* discovery order.                                                        *)
C12_Original ==
    /\ \A r \in MultiPageResults :
         /\ r.pagesScanned[1] = req.url
         /\ r.pageResults[1].url = req.url
    /\ (pc = "finally" /\ mode = "primary" /\ pending.isMultiPage) =>
         \A i \in 2..Len(pending.pagesScanned) :
             /\ pending.pagesScanned[i] = links[i - 1]
             /\ pending.pageResults[i].url = links[i - 1]

--------------------------------------------------------------------------
(* C13: a page that fails during a multi-page crawl does not abort the     *)
(* crawl: control never reaches the catch block once a page scan has been  *)
(* made, every page of pagesToScan gets its entry in pageResults, in the   *)
(* same order and with the same url, and the entry of a failed page is the *)
(* synthetic error PageResult.                                             *)
C13_Aligned(pages, results) ==
    /\ Len(attempted) = Len(results)
    /\ Len(results) <= Len(pages)
    /\ \A i \in 1..Len(results) :
         /\ results[i].url = pages[i]
         /\ attempted[i].url = pages[i]
         /\ attempted[i].failed <=> IsErrorPage(results[i])

C13_CrawlContinues ==
    /\ pc = "scanning" => C13_Aligned(pagesToScan, pageResults)
    /\ pc = "catch" => attempted = <<>>
    /\ (pc = "finally" /\ mode = "degraded") => attempted = <<>>
    /\ (pc = "finally" /\ mode = "primary" /\ pending.isMultiPage) =>
         /\ pending.pagesScanned = pagesToScan
         /\ Len(pending.pageResults) = Len(pagesToScan)
         /\ C13_Aligned(pending.pagesScanned, pending.pageResults)

\* a finished crawl whose first page failed and whose last page was evaluated
C13_Witness ==
    /\ pc = "finally"
    /\ mode = "primary"
    /\ pending.isMultiPage
    /\ Len(pending.pageResults) >= 3
    /\ attempted[1].failed
    /\ IsErrorPage(pending.pageResults[1])
    /\ ~attempted[Len(attempted)].failed
    /\ ~IsErrorPage(pending.pageResults[Len(pending.pageResults)])

--------------------------------------------------------------------------
(* C14: when rendering or evaluating a page fails, the single-page scanner *)
(* returns for that url a PageResult with score 0 and exactly one          *)
(* violation, scan-error, critical, count 1; never an empty list.          *)
C14_IsScanError(p, url) ==
    /\ p.url = url
    /\ p.score = 0
    /\ Len(p.violations) = 1
    /\ p.violations[1].id = "scan-error"
    /\ p.violations[1].impact = "critical"
    /\ p.violations[1].count = 1

C14_ErrorPage ==
    /\ pc = "scanning" =>
         \A i \in 1..Len(pageResults) :
             attempted[i].failed => C14_IsScanError(pageResults[i], attempted[i].url)
    /\ (pc = "finally" /\ mode = "primary" /\ ~pending.isMultiPage) =>
         (attempted[1].failed => C14_IsScanError(pending, req.url))
    /\ (pc = "pageDone" /\ subject.kind = "dom" /\ EvaluateThrows(subject.dom)) =>
         C14_IsScanError(page, subject.url)

\* a crawl with a page that failed after it was opened, and a single-page
\* scan that failed
C14_Witness ==
    \/ /\ pc = "scanning"
       /\ openPages > 0
       /\ \E i \in 1..Len(pageResults) :
            attempted[i].failed /\ pageResults[i].violations # <<>>
    \/ /\ pc = "finally"
       /\ mode = "primary"
       /\ ~pending.isMultiPage
       /\ attempted[1].failed
       /\ pending.score = 0

--------------------------------------------------------------------------
--------------------------------------------------------------------------
--------------------------------------------------------------------------
(* C17: the discovered links all have the hostname of the page, none comes *)
(* from a javascript:, mailto:, tel: or #... href, relative hrefs are put  *)
(* behind the page's origin, no URL is listed twice and the URLs are in    *)
(* order of first occurrence in the document.                              *)
C17_Target(href) ==
    CASE href.kind = "absolute" -> href.url
      [] href.kind = "schemeRelative" ->
           [scheme |-> req.url.scheme, host |-> req.url.host,
            segs |-> <<"", href.url.host>> \o href.url.segs, slash |-> href.url.slash]
      [] OTHER ->
           [scheme |-> req.url.scheme, host |-> req.url.host,
            segs |-> href.url.segs, slash |-> href.url.slash]

C17_Eligible(href) ==
    /\ href.kind \notin {"javascript", "mailto", "tel", "fragment", "empty"}
    /\ C17_Target(href).host = req.url.host

C17_First(u) ==
    CHOOSE i \in 1..Len(anchors) :
        /\ C17_Eligible(anchors[i]) /\ C17_Target(anchors[i]) = u
        /\ \A j \in 1..(i - 1) :
             ~(C17_Eligible(anchors[j]) /\ C17_Target(anchors[j]) = u)

C17_Links ==
    pc = "scanning" =>
        /\ \A j \in 1..Len(links) : links[j].host = req.url.host
        /\ \A j, k \in 1..Len(links) : j # k => links[j] # links[k]
        /\ \A j \in 1..Len(links) :
             \E i \in 1..Len(anchors) :
                 C17_Eligible(anchors[i]) /\ C17_Target(anchors[i]) = links[j]
        /\ \A i \in 1..Len(anchors) :
             C17_Eligible(anchors[i]) =>
                 \E j \in 1..Len(links) : links[j] = C17_Target(anchors[i])
        /\ \A j, k \in 1..Len(links) :
             j < k => C17_First(links[j]) < C17_First(links[k])

\* a document with mailto:, javascript: and tel: hrefs, a link to another
\* host and several links of its own host
C17_Witness ==
    /\ pc = "scanning"
    /\ \A kind \in {"mailto", "javascript", "tel"} :
         \E i \in 1..Len(anchors) : anchors[i].kind = kind
    /\ \E i \in 1..Len(anchors) :
         anchors[i].kind = "absolute" /\ anchors[i].url.host # req.url.host
    /\ Len(links) >= 2
    /\ Len(links) < Len(anchors)

--------------------------------------------------------------------------
(* C19: the heading-order violation counts the headings that break the     *)
(* rule against the heading just before them: the first heading when its   *)
(* level is not 1, a later heading when its level exceeds the previous     *)
(* heading's level by more than one.                                       *)
C19_Breaks(headings) ==
    Cardinality({ i \in 1..Len(headings) :
                    \/ (i = 1 /\ headings[1] # 1)
                    \/ (i > 1 /\ headings[i] > headings[i - 1] + 1) })

C19_ReportedCount(p) ==
    IF \E i \in 1..Len(p.violations) : p.violations[i].id = "heading-order"
    THEN LET i == CHOOSE i \in 1..Len(p.violations) : p.violations[i].id = "heading-order"
         IN  p.violations[i].count
    ELSE 0

C19_Original ==
    (pc = "pageDone" /\ subject.kind = "dom" /\ ~EvaluateThrows(subject.dom)) =>
        C19_ReportedCount(page) = C19_Breaks(subject.dom.headings)

--------------------------------------------------------------------------
(* C20 as claimed: text of colour rgb(153,153,153) on rgb(255,255,255) is  *)
(* reported as a colour-contrast violation, rgb(89,89,89) on               *)
(* rgb(255,255,255) is not.                                                *)
C20_HasContrastViolation(p) ==
    \E i \in 1..Len(p.violations) : p.violations[i].id = "color-contrast"

C20_OnWhite(color) == << [color |-> color, backgroundColor |-> "rgb(255, 255, 255)"] >>

C20_Listed(style) ==
    \/ style.color \in {"rgb(211, 211, 211)", "rgb(169, 169, 169)"}
    \/ style = [color |-> "rgb(255, 255, 255)", backgroundColor |-> "rgba(0, 0, 0, 0)"]

--------------------------------------------------------------------------
(* C21 as claimed: when one check of the battery raises an error against a *)
(* page, the other checks still run and their violations are reported for  *)
(* that page; the page is not turned into a failed page and the failing    *)
(* check adds no violation.                                                *)
C21_OtherChecks(dom) == Checks([dom EXCEPT !.invalidAriaUsage = 0])

C21_Original ==
    (pc = "pageDone" /\ subject.kind = "dom" /\ EvaluateThrows(subject.dom)) =>
        /\ ~IsErrorPage(page)
        /\ page.violations = C21_OtherChecks(subject.dom)

--------------------------------------------------------------------------
(* C22: a result of the simulated scanner (Degraded mode) can be told from *)
(* a result of the browser-backed scanner (Primary mode): every degraded   *)
(* result carries a colour-contrast violation described as "Insufficient   *)
(* Color Contrast", and no violation of a primary result, in its merged    *)
(* list or in a page, has that description.                                *)
C22_SimulatedText(v) == v.description = "Insufficient Color Contrast"

C22_Carries(r) == \E i \in 1..Len(r.violations) : C22_SimulatedText(r.violations[i])

C22_Distinguishable ==
    /\ mode = "degraded" => \A r \in EmittedScanResults : C22_Carries(r)
    /\ mode = "primary" => \A r \in EmittedScanResults : ~C22_Carries(r)
    /\ \A p \in SimulatedPages \cup LegacyResults : C22_Carries(p)
    /\ \A p \in PrimaryPages : ~C22_Carries(p)

\* a degraded result in which every violation id is one the browser-backed
\* scanner reports too, returned for a request whose crawl had rendered a
\* page
C22_Witness ==
    /\ pc = "done"
    /\ mode = "degraded"
    /\ rendered
    /\ C22_Carries(result)
    /\ \A i \in 1..Len(result.violations) :
         \E j \in 1..Len(CheckRegistry) : result.violations[i].id = CheckRegistry[j]

--------------------------------------------------------------------------
(* C27 as claimed: the page opened for a page scan that fails is closed    *)
(* before the next page scan begins: between two page scans of a crawl no  *)
(* page is open, so with the page being scanned at most one is open,       *)
(* however many pages have failed.                                         *)
C27_Original ==
    pc = "scanning" => openPages = 0

--------------------------------------------------------------------------
(* C29 as claimed: in a multi-page crawl no URL is scanned twice: neither  *)
(* the list of pages to scan nor pagesScanned of the result holds a URL    *)
(* twice, also when the base page links to itself.                         *)
C29_NoDuplicates(list) ==
    \A i, j \in 1..Len(list) : list[i] = list[j] => i = j

C29_Original ==
    /\ C29_NoDuplicates(pagesToScan)
    /\ \A r \in MultiPageResults : C29_NoDuplicates(r.pagesScanned)

--------------------------------------------------------------------------
(* C30: aggregation leaves the per-page results unchanged: once the merged *)
(* list has been built, every entry of pageResults is still the value its  *)
(* page scan returned, the violations that were the first of their id      *)
(* included; for the simulated scanner, every page's violations still add  *)
(* up to the issue count and give the score computed when the page was     *)
(* scanned.                                                                *)
C30_Returned == [ i \in 1..Len(attempted) |-> attempted[i].returned ]

C30_PagesUnchanged ==
    /\ (pc = "finally" /\ mode = "primary" /\ pending.isMultiPage) =>
          /\ pending.pageResults = C30_Returned
          /\ pageResults = C30_Returned
    /\ \A r \in MultiPageResults :
          mode = "degraded" =>
              \A i \in 1..Len(r.pageResults) :
                  LET p == r.pageResults[i]
                  IN  /\ p.issueCount = SumField(p.violations, "count")
                      /\ p.score = PageScore(p.violations, SimTotalChecks)

\* a two-page crawl in which the second page repeats an id of the first:
\* the merged count is larger than the count the first page still shows
C30_Witness ==
    /\ pc = "finally"
    /\ mode = "primary"
    /\ pending.isMultiPage
    /\ Len(pending.pageResults) >= 2
    /\ pending.pageResults[1].violations # <<>>
    /\ pending.violations[1].id = pending.pageResults[1].violations[1].id
    /\ pending.violations[1].count > pending.pageResults[1].violations[1].count

--------------------------------------------------------------------------
(* C23 as claimed: POST /api/scan calls scanWebsite only with a url whose  *)
(* scheme is http or https and whose host is neither a loopback address    *)
(* nor in a private address range; a request with any other url that the   *)
(* rate limiter lets through is answered 400, starts no scan and stores no *)
(* scan.                                                                   *)
C23_Numbers ==
    { "0", "1", "2", "5", "10", "16", "31", "32", "127", "168", "172", "192", "255" }

C23_IPv4(hostname) ==
    Len(hostname) = 4 /\ \A i \in 1..4 : hostname[i] \in C23_Numbers

\* localhost, ::1 and 127.0.0.0/8
C23_Loopback(hostname) ==
    \/ hostname = << "localhost" >>
    \/ hostname = << "[::1]" >>
    \/ C23_IPv4(hostname) /\ hostname[1] = "127"

\* 10.0.0.0/8, 172.16.0.0/12 and 192.168.0.0/16
C23_Private(hostname) ==
    /\ C23_IPv4(hostname)
    /\ \/ hostname[1] = "10"
       \/ hostname[1] = "172" /\ hostname[2] \in TwoDigits16To31
       \/ hostname[1] = "192" /\ hostname[2] = "168"

C23_Acceptable(url) ==
    /\ url.scheme \in {"http", "https"}
    /\ ~C23_Loopback(Hostname(url))
    /\ ~C23_Private(Hostname(url))

C23_Original ==
    /\ invoked # NoValue => C23_Acceptable(invoked.url)
    /\ \A i \in 1..Len(scans) : C23_Acceptable(scans[i].url)
    /\ (response # NoValue /\ response.route = "scan" /\ response.status # "429") =>
          (~C23_Acceptable(response.request.body.url) =>
               response.status = "400" /\ invoked = NoValue)

--------------------------------------------------------------------------
(* C24 as claimed: for every client address, at most 3 requests pass the   *)
(* rate limiter in any interval of 24 hours.                               *)
C24_PassesIn(ip, from, to) ==
    Cardinality({ i \in 1..Len(passTimes[ip]) :
                    passTimes[ip][i] >= from /\ passTimes[ip][i] < to })

C24_Original ==
    \A ip \in ClientIps : \A t \in 0..MaxTime :
        C24_PassesIn(ip, t, t + TicksPerDay) <= 3

(* C24 as amended: for every client address, at most 3 requests pass the   *)
(* rate limiter in each of its windows, a window opening at the first      *)
(* request of the address, or at its first request after the previous      *)
(* window ended, and lasting 24 hours; every further request in the window *)
(* is answered 429 and is not handed on (next() is not called), and every  *)
(* other request is handed on.                                             *)
C24_Full(ip) ==
    IF ip \in DOMAIN rateLimits
    THEN now <= rateLimits[ip].resetTime /\ rateLimits[ip].count >= 3
    ELSE FALSE

C24_FixedWindow ==
    /\ [](\A ip \in ClientIps :
            IF ip \in DOMAIN rateLimits
            THEN LET opened == rateLimits[ip].resetTime - TicksPerDay
                 IN  /\ rateLimits[ip].count \in 1..3
                     /\ C24_PassesIn(ip, opened, now + 1) = rateLimits[ip].count
                     /\ C24_PassesIn(ip, opened, opened + 1) >= 1
            ELSE passTimes[ip] = <<>>)
    /\ [][\A ip \in ClientIps :
            ((response' # response \/ passTimes' # passTimes) /\ response'.request.ip = ip) =>
                /\ C24_Full(ip) <=> response'.status = "429"
                /\ response'.status = "429" =>
                      passTimes' = passTimes /\ rateLimits' = rateLimits
                /\ response'.status # "429" =>
                      /\ response'.status = "next"
                      /\ passTimes'[ip] = Append(passTimes[ip], now)]_vars

\* an address that was let through five times within 24 hours, twice at
\* the end of one window and three times in the next, and is now refused
C24_Witness ==
    \E ip \in ClientIps :
        /\ C24_PassesIn(ip, now - TicksPerDay + 1, now + 1) = 5
        /\ C24_Full(ip)
        /\ response = Answer("rateLimit", [ip |-> ip], "429")

--------------------------------------------------------------------------
(* C25 as claimed: no POST /api/scan request of an authenticated user with *)
(* an active Pro subscription is answered 429.                             *)
C25_ActivePro(user) ==
    isAuthenticated(user) /\ subscriptionStatus(user) = "active"

C25_Original ==
    (response # NoValue /\ response.route = "scan") =>
        (C25_ActivePro(response.request.user) => response.status # "429")

--------------------------------------------------------------------------
(* C26 as claimed: POST /api/scan scans several pages only for a requester *)
(* on the premium plan: for any other requester scanWebsite is not called  *)
(* or is called with isMultiPage = false and depth 1; the depth passed to  *)
(* scanWebsite is at most 10 for everybody.                                *)
C26_Premium(user) ==
    isAuthenticated(user) /\ subscriptionStatus(user) # "free"

C26_Original ==
    /\ invoked # NoValue => invoked.scanDepth <= 10
    /\ (response # NoValue /\ response.route = "scan" /\ invoked # NoValue) =>
          (~C26_Premium(response.request.user) =>
               ~invoked.isMultiPage /\ invoked.scanDepth = 1)

--------------------------------------------------------------------------
(* C28 as claimed: GET /api/scans/:id sends a scan that has a userId only  *)
(* to the authenticated user with that id.                                 *)
C28_Original ==
    (response # NoValue /\ response.route = "scans/:id" /\ Has(response, "scan")) =>
        (response.scan.userId # Anonymous =>
             response.request.user = response.scan.userId)

====
